---- MODULE Spec2Model ----
(***************************************************************************)
(* A model of parse_flv.py: the FLV dump tool.  The byte source is a       *)
(* sequence of bytes, the cursor a 0-based position in it, the output file *)
(* a sequence of records, and the module globals _offset and _tag_count    *)
(* are state that outlives a call of parse_flv.  An uncaught Python        *)
(* exception ends the call: pc = "error" and err names the exception.      *)
(***************************************************************************)
EXTENDS Integers, Sequences, FiniteSets, TLC

VARIABLES file, script_in_detail, cursor, offset, tag_count, out, pc, err,
          data_size_int, tag_pos, runs, prev_out, prev_pc

vars == <<file, script_in_detail, cursor, offset, tag_count, out, pc, err,
          data_size_int, tag_pos, runs, prev_out, prev_pc>>

\* ---------------------------------------------------------------- bounds
\* Tags per input file.
MaxTags == 2
\* Calls of parse_flv in one process.
MaxRuns == 2
\* Bytes cut from the end of an input file.
MaxTrunc == 1

\* ------------------------------------------------------- the byte cursor
Max(a, b) == IF a >= b THEN a ELSE b
Min(a, b) == IF a <= b THEN a ELSE b

\* file.read(n) at position p returns n bytes when they are there.
Avail(p, n) == p + n <= Len(file)

\* file.read(n): the bytes it returns (fewer than n at the end of the file).
ReadBytes(p, n) == SubSeq(file, p + 1, Min(p + n, Len(file)))

\* The position after file.read(n) at p (a short read stops at the end).
ReadEnd(p, n) == IF Avail(p, n) THEN p + n ELSE Max(p, Len(file))

\* struct.unpack of big-endian unsigned integers, on bytes that are there.
U8(p) == file[p + 1]
U16(p) == file[p + 1] * 256 + file[p + 2]
U24(p) == (file[p + 1] * 256 + file[p + 2]) * 256 + file[p + 3]
U32(p) == ((file[p + 1] * 256 + file[p + 2]) * 256 + file[p + 3]) * 256 + file[p + 4]

\* One output record: the section that wrote it, its label, a name read
\* from the file (a property title), a text value, a number, raw bytes.
Rec(sec, label, name, text, num, raw) ==
    [sec |-> sec, label |-> label, name |-> name, text |-> text,
     num |-> num, raw |-> raw]

\* What a decoder returns: the cursor after it, the records it wrote, the
\* exception it raised ("" for none), the global _offset after it and the
\* data size its tag header gave.
Res(pos, recs, e, off, ds) ==
    [pos |-> pos, recs |-> recs, err |-> e, off |-> off, ds |-> ds]

\* ascii_to_binary: the 8 bits of a byte, most significant first.
ascii_to_binary(b) == [i \in 1..8 |-> (b \div (2 ^ (8 - i))) % 2]

RECURSIVE BitsToInt(_, _)
\* int(bits, base): the digits read in the given base.
BitsToInt(bits, base) ==
    IF Len(bits) = 0 THEN 0
    ELSE BitsToInt(SubSeq(bits, 1, Len(bits) - 1), base) * base + bits[Len(bits)]

\* parse_pre_tag_size: read 4 bytes, write the value; nothing is compared.
parse_pre_tag_size(p) ==
    IF ~Avail(p, 4)
    THEN Res(ReadEnd(p, 4), <<>>, "struct.error", 0, 0)
    ELSE Res(p + 4, <<Rec("pts", "PreviousTagSize", <<>>, "", U32(p), <<>>)>>,
             "", 0, 0)

\* parse_file_header: 9 bytes of header, then the first PreviousTagSize;
\* _offset grows by data_offset + 4 whatever the cursor did.
parse_file_header(p, off) ==
    IF ~Avail(p, 4)
    THEN Res(ReadEnd(p, 4), <<>>, "TypeError", off, 0)
    ELSE IF ~Avail(p, 9)
    THEN Res(ReadEnd(p, 9), <<>>, "struct.error", off, 0)
    ELSE LET type_flags == ascii_to_binary(U8(p + 4))
             data_offset == U32(p + 5)
             recs == <<Rec("file", "## OFFSET", <<>>, "", off, <<>>),
                       Rec("file", "Signature", <<>>, "", 0, ReadBytes(p, 3)),
                       Rec("file", "Version", <<>>, "", U8(p + 3), <<>>),
                       Rec("file", "TypeFlagsReserved", <<>>, "",
                           BitsToInt(SubSeq(type_flags, 1, 5), 10), <<>>),
                       Rec("file", "TypeFlagsAudio", <<>>, "", type_flags[6], <<>>),
                       Rec("file", "TypeFlagsReserved", <<>>, "", type_flags[7], <<>>),
                       Rec("file", "TypeFlagsVideo", <<>>, "", type_flags[8], <<>>),
                       Rec("file", "DataOffset", <<>>, "", data_offset, <<>>)>>
             pts == parse_pre_tag_size(p + 9)
         IN  IF pts.err # ""
             THEN Res(pts.pos, recs, pts.err, off, 0)
             ELSE Res(pts.pos, recs \o pts.recs, "", off + data_offset + 4, 0)

\* _tag_type_dict
tag_type_dict == [t \in {8, 9, 18} |->
    CASE t = 8 -> "Audio" [] t = 9 -> "Video" [] t = 18 -> "Script"]

\* parse_tag_header with the label looked up as _tag_type_dict.get(type,
\* 'Script'): a tag of any other type is written as a Script tag.
parse_tag_header_default_script(p, off) ==
    IF ~Avail(p, 11)
    THEN Res(ReadEnd(p, 11), <<>>, "struct.error", off, 0)
    ELSE LET tag_type_int == U8(p)
             ds == U24(p + 1)
         IN  Res(p + 11,
                 <<Rec("tag", "## OFFSET", <<>>, "", off, <<>>),
                   Rec("tag", "TagType", <<>>,
                       IF tag_type_int \in DOMAIN tag_type_dict
                       THEN tag_type_dict[tag_type_int] ELSE "Script",
                       tag_type_int, <<>>),
                   Rec("tag", "DataSize", <<>>, "", ds, <<>>),
                   Rec("tag", "Timestamp", <<>>, "", U24(p + 4), <<>>),
                   Rec("tag", "TimestampExtended", <<>>, "", U8(p + 7), <<>>),
                   Rec("tag", "StreamID", <<>>, "", U24(p + 8), <<>>)>>,
                 "", off + 11 + ds + 4, ds)

\* parse_tag_header with _offset += 11 + data_size_int: the trailing
\* PreviousTagSize is left out of the running offset.
parse_tag_header_no_trailer(p, off) ==
    IF ~Avail(p, 11)
    THEN Res(ReadEnd(p, 11), <<>>, "struct.error", off, 0)
    ELSE LET tag_type_int == U8(p)
             ds == U24(p + 1)
         IN  IF tag_type_int \notin DOMAIN tag_type_dict
             THEN Res(p + 11, <<>>, "KeyError", off, ds)
             ELSE Res(p + 11,
                      <<Rec("tag", "## OFFSET", <<>>, "", off, <<>>),
                        Rec("tag", "TagType", <<>>, tag_type_dict[tag_type_int],
                            tag_type_int, <<>>),
                        Rec("tag", "DataSize", <<>>, "", ds, <<>>),
                        Rec("tag", "Timestamp", <<>>, "", U24(p + 4), <<>>),
                        Rec("tag", "TimestampExtended", <<>>, "", U8(p + 7), <<>>),
                        Rec("tag", "StreamID", <<>>, "", U24(p + 8), <<>>)>>,
                      "", off + 11 + ds, ds)

\* parse_tag_header: 11 bytes; the tag type is looked up in _tag_type_dict
\* (KeyError for any other type) before anything is written; _offset grows
\* by 11 + data_size + 4.
parse_tag_header(p, off) ==
    IF ~Avail(p, 11)
    THEN Res(ReadEnd(p, 11), <<>>, "struct.error", off, 0)
    ELSE LET tag_type_int == U8(p)
             ds == U24(p + 1)
         IN  IF tag_type_int \notin DOMAIN tag_type_dict
             THEN Res(p + 11, <<>>, "KeyError", off, ds)
             ELSE Res(p + 11,
                      <<Rec("tag", "## OFFSET", <<>>, "", off, <<>>),
                        Rec("tag", "TagType", <<>>, tag_type_dict[tag_type_int],
                            tag_type_int, <<>>),
                        Rec("tag", "DataSize", <<>>, "", ds, <<>>),
                        Rec("tag", "Timestamp", <<>>, "", U24(p + 4), <<>>),
                        Rec("tag", "TimestampExtended", <<>>, "", U8(p + 7), <<>>),
                        Rec("tag", "StreamID", <<>>, "", U24(p + 8), <<>>)>>,
                      "", off + 11 + ds + 4, ds)

\* audio_dict of parse_audio: the codes each field has a label for.
audio_dict ==
    [SoundFormat |-> [c \in (0..11) \cup {14, 15} |->
        CASE c = 0 -> "Linear PCM, platform endian"
          [] c = 1 -> "ADPCM"
          [] c = 2 -> "MP3"
          [] c = 3 -> "Linear PCM, little endian"
          [] c = 4 -> "Nellymoser 16-kHz mono"
          [] c = 5 -> "Nellymoser 8-kHz mono"
          [] c = 6 -> "Nellymoser"
          [] c = 7 -> "G.711 A-law logarithmic PCM"
          [] c = 8 -> "G.711 mu-law logarithmic PCM"
          [] c = 9 -> "reserved"
          [] c = 10 -> "AAC"
          [] c = 11 -> "Speex"
          [] c = 14 -> "MP3 8-Khz"
          [] c = 15 -> "Device-specific sound}"],
     SoundRate |-> [c \in 0..3 |->
        CASE c = 0 -> "5.5-kHz" [] c = 1 -> "11-kHz"
          [] c = 2 -> "22-kHz" [] c = 3 -> "44-kHz"],
     SoundSize |-> [c \in 0..1 |-> IF c = 0 THEN "snd8Bit" ELSE "snd16Bit"],
     SoundType |-> [c \in 0..1 |-> IF c = 0 THEN "sndMono" ELSE "sndStereo"]]

\* acc_packet_type_dict of parse_audio
acc_packet_type_dict ==
    [c \in 0..1 |-> IF c = 0 THEN "AAC sequence header" ELSE " AAC raw"]

\* The four bit fields of the audio flags byte (audio_data_field: 4+2+1+1).
AudioFields(b) ==
    LET bits == ascii_to_binary(b)
    IN  [SoundFormat |-> BitsToInt(SubSeq(bits, 1, 4), 2),
         SoundRate |-> BitsToInt(SubSeq(bits, 5, 6), 2),
         SoundSize |-> BitsToInt(SubSeq(bits, 7, 7), 2),
         SoundType |-> BitsToInt(SubSeq(bits, 8, 8), 2)]

\* parse_audio: the tag header, the flags byte, each field looked up in
\* audio_dict (KeyError for a code without a label), then one more byte read
\* as the AAC packet type whatever the sound format, looked up in
\* acc_packet_type_dict (KeyError), then seek(data_size - 2).
parse_audio(p, off) ==
    LET hdr == parse_tag_header(p, off)
        q == hdr.pos
    IN  IF hdr.err # "" THEN hdr
        ELSE IF ~Avail(q, 1)
        THEN Res(ReadEnd(q, 1), hdr.recs, "ValueError", hdr.off, hdr.ds)
        ELSE LET f == AudioFields(U8(q))
             IN  IF f.SoundFormat \notin DOMAIN audio_dict.SoundFormat
                 THEN Res(q + 1, hdr.recs, "KeyError", hdr.off, hdr.ds)
                 ELSE IF ~Avail(q + 1, 1)
                 THEN Res(ReadEnd(q + 1, 1), hdr.recs, "struct.error", hdr.off, hdr.ds)
                 ELSE IF U8(q + 1) \notin DOMAIN acc_packet_type_dict
                 THEN Res(q + 2, hdr.recs, "KeyError", hdr.off, hdr.ds)
                 ELSE IF q + 2 + (hdr.ds - 1 - 1) < 0
                 THEN Res(q + 2, hdr.recs, "IOError", hdr.off, hdr.ds)
                 ELSE Res(q + 2 + (hdr.ds - 1 - 1),
                          hdr.recs \o
                          <<Rec("audio", "SoundFormat", <<>>,
                                audio_dict.SoundFormat[f.SoundFormat], f.SoundFormat, <<>>),
                            Rec("audio", "SoundRate", <<>>,
                                audio_dict.SoundRate[f.SoundRate], f.SoundRate, <<>>),
                            Rec("audio", "SoundSize", <<>>,
                                audio_dict.SoundSize[f.SoundSize], f.SoundSize, <<>>),
                            Rec("audio", "SoundType", <<>>,
                                audio_dict.SoundType[f.SoundType], f.SoundType, <<>>),
                            Rec("audio", "ACC Packet Type", <<>>,
                                acc_packet_type_dict[U8(q + 1)], U8(q + 1), <<>>)>>,
                          "", hdr.off, hdr.ds)

\* video_dict of parse_video: the codes each field has a label for.
video_dict ==
    [FrameType |-> [c \in 1..5 |->
        CASE c = 1 -> "keyframe (for AVC, a seekable frame)"
          [] c = 2 -> "inter frame (for AVC, a non-seekable frame)"
          [] c = 3 -> "disposable inter frame (H.263 only)"
          [] c = 4 -> "generated keyframe (reserved for server use only)"
          [] c = 5 -> "video info/command frame"],
     CodecID |-> [c \in 1..7 |->
        CASE c = 1 -> "JPEG (currently unused)"
          [] c = 2 -> "Sorenson H.263"
          [] c = 3 -> "Screen video"
          [] c = 4 -> "On2 VP6"
          [] c = 5 -> "On2 VP6 with alpha channel"
          [] c = 6 -> "Screen video version 2"
          [] c = 7 -> "AVC"]]

\* avc_packet_type_dict of parse_video
avc_packet_type_dict ==
    [c \in 0..2 |->
        CASE c = 0 -> "AVC sequence header" [] c = 1 -> "AVC NALU"
          [] c = 2 -> "AVC end of sequence"]

\* try: d[code] except KeyError: 'unknown %s' % code
NameOrUnknown(d, code) == IF code \in DOMAIN d THEN d[code] ELSE "unknown"

\* The two bit fields of the video flags byte (video_data_field: 4+4).
VideoFields(b) ==
    LET bits == ascii_to_binary(b)
    IN  [FrameType |-> BitsToInt(SubSeq(bits, 1, 4), 2),
         CodecID |-> BitsToInt(SubSeq(bits, 5, 8), 2)]

\* parse_video: the tag header, the flags byte, then one byte read as the AVC
\* packet type and three as the composition time whatever the codec, then
\* seek(data_size - 5).  No lookup raises.
parse_video(p, off) ==
    LET hdr == parse_tag_header(p, off)
        q == hdr.pos
    IN  IF hdr.err # "" THEN hdr
        ELSE IF ~Avail(q, 1)
        THEN Res(ReadEnd(q, 1), hdr.recs, "ValueError", hdr.off, hdr.ds)
        ELSE IF ~Avail(q + 1, 4)
        THEN Res(ReadEnd(q + 1, 4), hdr.recs, "struct.error", hdr.off, hdr.ds)
        ELSE IF q + 5 + (hdr.ds - 1 - 4) < 0
        THEN Res(q + 5, hdr.recs, "IOError", hdr.off, hdr.ds)
        ELSE LET f == VideoFields(U8(q))
                 avc_packet_type == U8(q + 1)
             IN  Res(q + 5 + (hdr.ds - 1 - 4),
                     hdr.recs \o
                     <<Rec("video", "FrameType", <<>>,
                           NameOrUnknown(video_dict.FrameType, f.FrameType),
                           f.FrameType, <<>>),
                       Rec("video", "CodecID", <<>>,
                           NameOrUnknown(video_dict.CodecID, f.CodecID),
                           f.CodecID, <<>>),
                       Rec("video", "AVC Packet Type", <<>>,
                           NameOrUnknown(avc_packet_type_dict, avc_packet_type),
                           avc_packet_type, <<>>),
                       Rec("video", "Compositon Time", <<>>, "", U24(q + 2), <<>>)>>,
                     "", hdr.off, hdr.ds)

\* struct.error: an unpack of a read that came back short; the cursor is
\* where the short read left it.
StructError(p, n) == Res(ReadEnd(p, n), <<>>, "struct.error", 0, 0)

\* is_end_marker: the next three bytes are 00 00 09 (the cursor is put back).
is_end_marker(p) == U24(p) = 9

RECURSIVE KeyFrames(_, _, _, _)
\* for i in range(key_frame_num): one type byte and one 8-byte double.
KeyFrames(p, i, key_frame_num, recs) ==
    IF i >= key_frame_num THEN Res(p, recs, "", 0, 0)
    ELSE IF ~Avail(p, 1) THEN StructError(p, 1)
    ELSE IF ~Avail(p + 1, 8) THEN StructError(p + 1, 8)
    ELSE KeyFrames(p + 9, i + 1, key_frame_num,
                   Append(recs, Rec("prop", "keyframe", <<>>, "", i,
                                    ReadBytes(p + 1, 8))))

RECURSIVE SubMembers(_, _, _)
\* for i in range(2): the two members of a type-3 element; a member of sub
\* type 10 is a counted list of key frames, any other has no value read.
SubMembers(p, i, recs) ==
    IF i >= 2 THEN Res(p, recs, "", 0, 0)
    ELSE IF ~Avail(p, 2) THEN StructError(p, 2)
    ELSE LET sub_tile_len == U16(p)
             sub_tile == ReadBytes(p + 2, sub_tile_len)
             p1 == ReadEnd(p + 2, sub_tile_len)
         IN  IF ~Avail(p1, 1) THEN StructError(p1, 1)
             ELSE LET sub_type == U8(p1)
                      recs1 == Append(recs, Rec("prop", "sub", sub_tile, "",
                                                sub_type, <<>>))
                  IN  IF sub_type # 10 THEN SubMembers(p1 + 1, i + 1, recs1)
                      ELSE IF ~Avail(p1 + 1, 4) THEN StructError(p1 + 1, 4)
                      ELSE LET key_frame_num == U32(p1 + 1)
                               kf == KeyFrames(p1 + 5, 0, key_frame_num,
                                       Append(recs1,
                                              Rec("prop", "key_frame_num", <<>>, "",
                                                  key_frame_num, <<>>)))
                           IN  IF kf.err # "" THEN kf
                               ELSE SubMembers(kf.pos, i + 1, kf.recs)

RECURSIVE ScriptLoop(_, _)
\* The while True loop of parse_script_data: a name, a type byte and the
\* value of types 0, 1 and 2; the only break is at the end of a type-3
\* element; after any other type the loop goes on with the next bytes.
ScriptLoop(p, recs) ==
    IF ~Avail(p, 2) THEN StructError(p, 2)
    ELSE LET title_len == U16(p)
             title == ReadBytes(p + 2, title_len)
             p1 == ReadEnd(p + 2, title_len)
             p2 == p1 + 1
         IN  IF ~Avail(p1, 1) THEN StructError(p1, 1)
             ELSE LET elem_type == U8(p1)
                  IN  CASE elem_type = 0 ->
                             IF ~Avail(p2, 8) THEN StructError(p2, 8)
                             ELSE ScriptLoop(p2 + 8,
                                    Append(recs, Rec("prop", "elem", title, "", 0,
                                                     ReadBytes(p2, 8))))
                        [] elem_type = 1 ->
                             IF ~Avail(p2, 1) THEN StructError(p2, 1)
                             ELSE ScriptLoop(p2 + 1,
                                    Append(recs, Rec("prop", "elem", title, "",
                                                     U8(p2), <<>>)))
                        [] elem_type = 2 ->
                             IF ~Avail(p2, 2) THEN StructError(p2, 2)
                             ELSE ScriptLoop(ReadEnd(p2 + 2, U16(p2)),
                                    Append(recs, Rec("prop", "elem", title, "", 0,
                                                     ReadBytes(p2 + 2, U16(p2)))))
                        [] elem_type = 3 ->
                             LET m == SubMembers(p2, 0,
                                        Append(recs, Rec("prop", "elem", title, "",
                                                         0, <<>>)))
                             IN  IF m.err # "" THEN m
                                 ELSE IF ~Avail(m.pos, 3) THEN StructError(m.pos, 3)
                                 ELSE IF is_end_marker(m.pos)
                                 THEN Res(m.pos + 3, m.recs, "", 0, 0)
                                 ELSE m
                        [] OTHER -> ScriptLoop(p2, recs)

\* parse_script_data: the top-level string, the array header, the loop, one
\* more end-marker check; the records are written only when all of it is read.
parse_script_data(p) ==
    IF ~Avail(p, 1) THEN StructError(p, 1)
    ELSE IF ~Avail(p + 1, 2) THEN StructError(p + 1, 2)
    ELSE LET string_size == U16(p + 1)
             p1 == ReadEnd(p + 3, string_size)
         IN  IF ~Avail(p1, 1) THEN StructError(p1, 1)
             ELSE IF ~Avail(p1 + 1, 4) THEN StructError(p1 + 1, 4)
             ELSE LET loop == ScriptLoop(p1 + 5,
                        <<Rec("script", "Type", <<>>, "", U8(p), <<>>),
                          Rec("script", "String Size", <<>>, "", string_size, <<>>),
                          Rec("script", "String", <<>>, "", 0,
                              ReadBytes(p + 3, string_size)),
                          Rec("script", "Type", <<>>, "", U8(p1), <<>>),
                          Rec("script", "Array Size", <<>>, "", U32(p1 + 1), <<>>)>>)
                  IN  IF loop.err # "" THEN loop
                      ELSE IF ~Avail(loop.pos, 3) THEN StructError(loop.pos, 3)
                      ELSE IF is_end_marker(loop.pos)
                      THEN Res(loop.pos + 3, loop.recs, "", 0, 0)
                      ELSE loop

\* parse_script: the tag header, then parse_script_data in detail mode and
\* seek(data_size) otherwise.
parse_script(p, off, detail) ==
    LET hdr == parse_tag_header(p, off)
    IN  IF hdr.err # "" THEN hdr
        ELSE IF detail
        THEN LET d == parse_script_data(hdr.pos)
             IN  Res(d.pos, IF d.err # "" THEN hdr.recs ELSE hdr.recs \o d.recs,
                     d.err, hdr.off, hdr.ds)
        ELSE Res(hdr.pos + hdr.ds, hdr.recs, "", hdr.off, hdr.ds)

\* ------------------------------------------------------------ input files
\* The 11-byte header of a tag: type, 24-bit data size, timestamp 0, stream 0.
TagHeaderBytes(type, ds) == <<type, 0, 0, ds, 0, 0, 0, 0, 0, 0, 0>>

\* A tag: header, payload, PreviousTagSize as the muxer wrote it.
TagBytes(type, payload, pts) ==
    TagHeaderBytes(type, Len(payload)) \o payload \o <<0, 0, 0, pts>>

\* A well-formed tag: PreviousTagSize is 11 + data size.
GoodTag(type, payload) == TagBytes(type, payload, 11 + Len(payload))

\* The top of a script payload: the string "a" and an ECMA array header.
ScriptTop(n) == <<2, 0, 1, 97, 8, 0, 0, 0, n>>

EndMarker == <<0, 0, 9>>

\* The tags input files are built from.
Palette ==
    { \* audio, AAC (10), 44 kHz, 16 bit, stereo, AAC raw
      GoodTag(8, <<175, 1>>),
      \* audio, MP3 (2), one frame byte after the flags, PreviousTagSize left 0
      TagBytes(8, <<47, 1, 7>>, 0),
      \* audio, sound format 12
      GoodTag(8, <<207, 0>>),
      \* video, key frame, AVC (7), NALU, composition time 0
      GoodTag(9, <<23, 1, 0, 0, 0>>),
      \* video, key frame, Sorenson H.263 (2), five frame bytes
      GoodTag(9, <<18, 9, 9, 9, 9, 9>>),
      \* script, an ECMA array of no entries
      GoodTag(18, ScriptTop(0) \o EndMarker),
      \* script, one object "k" of two key-frame lists (none, one), closed by
      \* the object's end marker and the array's
      GoodTag(18, ScriptTop(1) \o <<0, 1, 107, 3>>
                  \o <<0, 1, 102, 10, 0, 0, 0, 0>>
                  \o <<0, 1, 116, 10, 0, 0, 0, 1, 0, 1, 2, 3, 4, 5, 6, 7, 8>>
                  \o EndMarker \o EndMarker),
      \* script, an entry "x" of element type 5, then an object "k" of two
      \* members without values
      GoodTag(18, ScriptTop(2) \o <<0, 1, 120, 5>>
                  \o <<0, 1, 107, 3, 0, 1, 102, 0, 0, 1, 116, 0>> \o EndMarker),
      \* script, an object "k" of two empty key-frame lists closed by its end
      \* marker, then a boolean entry "b" and the array's end marker
      GoodTag(18, ScriptTop(2) \o <<0, 1, 107, 3>>
                  \o <<0, 1, 102, 10, 0, 0, 0, 0>>
                  \o <<0, 1, 116, 10, 0, 0, 0, 0>>
                  \o EndMarker \o <<0, 1, 98, 1, 1>> \o EndMarker),
      \* script, one long-string entry "l" (element type 12) holding "A"
      GoodTag(18, ScriptTop(1) \o <<0, 1, 108, 12, 0, 0, 0, 1, 65>> \o EndMarker),
      \* a tag of type 5
      GoodTag(5, <<>>) }

\* The 9-byte file header "FLV", version 1, audio and video, then the first
\* PreviousTagSize.
FileHeaderBytes(data_offset) ==
    <<70, 76, 86, 1, 5, 0, 0, 0, data_offset>> \o <<0, 0, 0, 0>>

\* The data_offset values of the input files' headers.
DataOffsets == {9, 10}

RECURSIVE Flatten(_)
Flatten(ts) == IF Len(ts) = 0 THEN <<>> ELSE Head(ts) \o Flatten(Tail(ts))

TagSeqs == UNION {[1..n -> Palette] : n \in 0..MaxTags}

Files ==
    {SubSeq(FileHeaderBytes(d) \o Flatten(ts), 1,
            Len(FileHeaderBytes(d) \o Flatten(ts)) - t) :
        d \in DataOffsets, ts \in TagSeqs, t \in 0..MaxTrunc}

\* ---------------------------------------------------------- the program
Init ==
    /\ file \in Files
    /\ script_in_detail \in BOOLEAN
    /\ cursor = 0
    /\ offset = 0
    /\ tag_count = 0
    /\ out = <<>>
    /\ pc = "idle"
    /\ err = ""
    /\ data_size_int = 0
    /\ tag_pos = 0
    /\ runs = 0
    /\ prev_out = <<>>
    /\ prev_pc = "idle"

\* A decoder's result applied to the state.
Apply(r, next) ==
    /\ cursor' = r.pos
    /\ offset' = r.off
    /\ out' = out \o r.recs
    /\ err' = r.err
    /\ pc' = IF r.err = "" THEN next ELSE "error"

\* parse_flv up to its loop: the input is opened at 0, the output file is
\* emptied, the file header is decoded.  The globals are not reset.
ParseFlvOpen ==
    /\ pc \in {"idle", "done", "error"}
    /\ runs < MaxRuns
    /\ runs' = runs + 1
    /\ prev_out' = out
    /\ prev_pc' = pc
    /\ LET r == parse_file_header(0, offset)
       IN  /\ cursor' = r.pos
           /\ offset' = r.off
           /\ out' = r.recs
           /\ err' = r.err
           /\ pc' = IF r.err = "" THEN "loop" ELSE "error"
    /\ data_size_int' = 0
    /\ tag_pos' = 0
    /\ UNCHANGED <<file, script_in_detail, tag_count>>

\* has_next_tag is true: the tag is counted and announced.
BeginTag ==
    /\ pc = "loop"
    /\ Avail(cursor, 1)
    /\ tag_count' = tag_count + 1
    /\ out' = Append(out, Rec("driver", "Tag No.", <<>>, "", tag_count + 1, <<>>))
    /\ tag_pos' = cursor
    /\ pc' = "dispatch"
    /\ UNCHANGED <<file, script_in_detail, cursor, offset, err, data_size_int,
                   runs, prev_out, prev_pc>>

\* has_next_tag is false: the output is closed.
Finish ==
    /\ pc = "loop"
    /\ ~Avail(cursor, 1)
    /\ pc' = "done"
    /\ UNCHANGED <<file, script_in_detail, cursor, offset, tag_count, out, err,
                   data_size_int, tag_pos, runs, prev_out, prev_pc>>

ParseAudio ==
    /\ pc = "dispatch"
    /\ U8(cursor) = 8
    /\ LET r == parse_audio(cursor, offset)
       IN  Apply(r, "pretag") /\ data_size_int' = r.ds
    /\ UNCHANGED <<file, script_in_detail, tag_count, tag_pos, runs, prev_out,
                   prev_pc>>

ParseVideo ==
    /\ pc = "dispatch"
    /\ U8(cursor) = 9
    /\ LET r == parse_video(cursor, offset)
       IN  Apply(r, "pretag") /\ data_size_int' = r.ds
    /\ UNCHANGED <<file, script_in_detail, tag_count, tag_pos, runs, prev_out,
                   prev_pc>>

\* The else branch of the dispatch: every type but 8 and 9.
ParseScript ==
    /\ pc = "dispatch"
    /\ U8(cursor) \notin {8, 9}
    /\ LET r == parse_script(cursor, offset, script_in_detail)
       IN  Apply(r, "pretag") /\ data_size_int' = r.ds
    /\ UNCHANGED <<file, script_in_detail, tag_count, tag_pos, runs, prev_out,
                   prev_pc>>

\* The PreviousTagSize after a tag.
ParsePreTagSize ==
    /\ pc = "pretag"
    /\ LET r == parse_pre_tag_size(cursor)
       IN  /\ cursor' = r.pos
           /\ out' = out \o r.recs
           /\ err' = r.err
           /\ pc' = IF r.err = "" THEN "loop" ELSE "error"
    /\ UNCHANGED <<file, script_in_detail, offset, tag_count, data_size_int,
                   tag_pos, runs, prev_out, prev_pc>>

Next ==
    \/ ParseFlvOpen
    \/ BeginTag
    \/ Finish
    \/ ParseAudio
    \/ ParseVideo
    \/ ParseScript
    \/ ParsePreTagSize

Spec == Init /\ [][Next]_vars

\* ------------------------------------------------------------ properties
\* The records a step added to the output.
Appended(before, after) == SubSeq(after, Len(before) + 1, Len(after))

HasLabel(recs, label) == \E i \in 1..Len(recs) : recs[i].label = label

\* The property records among recs: one per top-level name/value pair.
PropCount(recs) ==
    Cardinality({i \in 1..Len(recs) : recs[i].sec = "prop" /\ recs[i].label = "elem"})

\* The tag at the cursor is in the file whole, trailing PreviousTagSize too.
WholeTagAt(p) == Avail(p, 11) /\ Avail(p, 11 + U24(p + 1) + 4)

\* Where the name/value pairs of the script payload at q begin: after the
\* top-level string and the array's type and size.
ArrayStart(q) == q + 3 + U16(q + 1) + 5

\* The encoded length of a value of element type t at p; -1 for a type
\* without one (an object, an unrecognized type).
ValueLen(t, p, end) ==
    CASE t = 0 -> 8
      [] t = 1 -> 1
      [] t = 2 -> IF p + 2 <= end THEN 2 + U16(p) ELSE -1
      [] t = 12 -> IF p + 4 <= end THEN 4 + U32(p) ELSE -1
      [] OTHER -> -1

RECURSIVE EntriesToMarker(_, _)
\* The number of name/value pairs of types 0, 1, 2 and 12 between p and an
\* end marker 00 00 09 at a name position that closes the payload at end;
\* -1 when the bytes from p to end are not of that shape.
EntriesToMarker(p, end) ==
    IF p + 3 > end THEN -1
    ELSE IF U24(p) = 9 THEN (IF p + 3 = end THEN 0 ELSE -1)
    ELSE LET tp == p + 2 + U16(p)
         IN  IF tp + 1 > end THEN -1
             ELSE LET n == ValueLen(U8(tp), tp + 1, end)
                  IN  IF n < 0 \/ tp + 1 + n > end THEN -1
                      ELSE LET rest == EntriesToMarker(tp + 1 + n, end)
                           IN  IF rest < 0 THEN -1 ELSE rest + 1

RECURSIVE UnknownElemAt(_, _)
\* The position right after the type byte of the first name/value pair from
\* p whose element type is outside {0, 1, 2, 3, 12}, the pairs before it
\* being of types 0, 1, 2 and 12; -1 when there is none before end.
UnknownElemAt(p, end) ==
    IF p + 3 > end \/ U24(p) = 9 THEN -1
    ELSE LET tp == p + 2 + U16(p)
         IN  IF tp + 1 > end \/ U8(tp) = 3 THEN -1
             ELSE IF U8(tp) \notin {0, 1, 2, 12} THEN tp + 1
             ELSE LET n == ValueLen(U8(tp), tp + 1, end)
                  IN  IF n < 0 \/ tp + 1 + n > end THEN -1
                      ELSE UnknownElemAt(tp + 1 + n, end)

\* The tag header records of the output: the offsets and the data sizes.
IsTagOffset(r) == r.sec = "tag" /\ r.label = "## OFFSET"
IsTagSize(r) == r.sec = "tag" /\ r.label = "DataSize"
TagOffsets == SelectSeq(out, IsTagOffset)
TagSizes == SelectSeq(out, IsTagSize)

\* C1: whenever the trailing PreviousTagSize is about to be read, the
\* cursor is at (position of the tag header) + 11 + data_size, for every
\* payload decoder, the detailed script decoder included.
C1_PayloadConsumesDataSize ==
    pc = "pretag" => cursor = tag_pos + 11 + data_size_int

\* C2: a PreviousTagSize that differs from 11 + data_size of the tag just
\* consumed is reported as a SizeMismatch when it is read.
C2_SizeMismatchReported ==
    [][(pc = "pretag" /\ pc' = "loop" /\ U32(cursor) # 11 + data_size_int)
         => (HasLabel(Appended(out, out'), "SizeMismatch") /\ cursor' = cursor + 4)]_vars

\* C3: two completed decodes of the same byte source in one process write
\* the same records.
C3_DecodeIdempotent ==
    (pc = "done" /\ prev_pc = "done" /\ runs >= 2) => out = prev_out

\* C4: a tag whose type is outside {8, 9, 18} ends the decode with the
\* lookup error for that type (the truncation error when its header is cut
\* short); nothing is written for it, the running offset is not advanced and
\* the cursor goes no further than the 11 header bytes: no payload is decoded
\* or skipped.
C4_UnknownTagTypeIsError ==
    [][(pc = "dispatch" /\ U8(cursor) \notin {8, 9, 18})
         => /\ pc' = "error"
            /\ out' = out
            /\ offset' = offset
            /\ cursor' <= cursor + 11
            /\ Avail(cursor, 11) => (err' = "KeyError" /\ cursor' = cursor + 11)
            /\ ~Avail(cursor, 11) => err' = "struct.error"]_vars

\* C4's case: the decode stopped with the lookup error right after the 11
\* header bytes of a tag of unknown type.
C4_Witness ==
    /\ pc = "error"
    /\ err = "KeyError"
    /\ tag_pos >= 13
    /\ U8(tag_pos) \notin {8, 9, 18}
    /\ cursor = tag_pos + 11
    /\ out[Len(out)].label = "Tag No."

\* C5: in detailed script decoding, a payload of k name/value pairs closed
\* by the end marker gives exactly k property records and leaves the cursor
\* at the end of the payload, without an error.
C5_LoopStopsAtEndMarker ==
    [][(/\ pc = "dispatch"
        /\ U8(cursor) = 18
        /\ script_in_detail
        /\ WholeTagAt(cursor)
        /\ U24(cursor + 1) >= 12
        /\ EntriesToMarker(ArrayStart(cursor + 11), cursor + 11 + U24(cursor + 1)) >= 0)
         => /\ pc' = "pretag"
            /\ PropCount(Appended(out, out')) =
                 EntriesToMarker(ArrayStart(cursor + 11), cursor + 11 + U24(cursor + 1))
            /\ cursor' = cursor + 11 + U24(cursor + 1)]_vars

\* C6: in detailed script decoding, an element type outside {0, 1, 2, 3, 12}
\* is an error for the tag, raised at the type byte: no byte after it is read.
C6_UnknownElementIsError ==
    [][(/\ pc = "dispatch"
        /\ U8(cursor) = 18
        /\ script_in_detail
        /\ WholeTagAt(cursor)
        /\ U24(cursor + 1) >= 12
        /\ UnknownElemAt(ArrayStart(cursor + 11), cursor + 11 + U24(cursor + 1)) >= 0)
         => /\ pc' = "error"
            /\ cursor' <= UnknownElemAt(ArrayStart(cursor + 11),
                                        cursor + 11 + U24(cursor + 1))]_vars

\* C7: an audio or video tag that is in the file whole is decoded without an
\* error whatever the codes of its flags byte and packet type byte are, and
\* the cursor is then at the tag's PreviousTagSize.
C7_UnknownCodesNeverAbort ==
    [][(/\ pc = "dispatch"
        /\ U8(cursor) \in {8, 9}
        /\ WholeTagAt(cursor)
        /\ U24(cursor + 1) >= 1)
         => /\ pc' = "pretag"
            /\ cursor' = cursor + 11 + U24(cursor + 1)]_vars

\* C8: an audio tag whose sound format is not 10 writes no AAC packet type
\* record, and a video tag whose codec is not 7 writes no AVC packet type
\* and no composition time record.
C8_ExtensionOnlyForCodec ==
    [][(/\ pc = "dispatch"
        /\ pc' = "pretag"
        /\ U24(cursor + 1) >= 1
        /\ \/ U8(cursor) = 8 /\ AudioFields(U8(cursor + 11)).SoundFormat # 10
           \/ U8(cursor) = 9 /\ VideoFields(U8(cursor + 11)).CodecID # 7)
         => /\ ~HasLabel(Appended(out, out'), "ACC Packet Type")
            /\ ~HasLabel(Appended(out, out'), "AVC Packet Type")
            /\ ~HasLabel(Appended(out, out'), "Compositon Time")]_vars

\* C9: the offsets written for two tags decoded one after the other differ
\* by 11 + data_size of the first + 4.
C9_ConsecutiveOffsets ==
    /\ Len(TagOffsets) = Len(TagSizes)
    /\ \A i \in 1..(Len(TagOffsets) - 1) :
          TagOffsets[i + 1].num = TagOffsets[i].num + 11 + TagSizes[i].num + 4

\* C9's case: two tag headers have been decoded, the first of a tag with a
\* payload, and the second tag is done.
C9_Witness ==
    /\ Len(TagOffsets) >= 2
    /\ TagSizes[1].num > 0
    /\ TagOffsets[2].num > TagOffsets[1].num
    /\ pc = "loop"

\* C10: at the top of every driver iteration the running offset is the
\* cursor's position.
C10_OffsetIsCursor ==
    pc = "loop" => offset = cursor

====
